---- MODULE Spec2Model ----
(***************************************************************************)
(* speedtest-logger, statistics scripts: dashboard.py (Streamlit           *)
(* before/after dashboard), analyze-speedtest.py (CLI analysis), main.py   *)
(* (timestamp parse check) and generate-test-data.py (test-data            *)
(* generator, specification GenSpec).                                      *)
(*                                                                         *)
(* Text is a tuple of one-character strings, so that slicing, parsing and  *)
(* numeric coercion are computed and not assumed.  Instants are seconds    *)
(* since 1970-01-01T00:00:00Z.  Means and percentages are exact rationals  *)
(* (floating-point rounding is not modelled).                              *)
(***************************************************************************)
EXTENDS Integers, Sequences, FiniteSets, TLC

VARIABLES
    prog,         \* entry point of this run: a script or a function called on its own
    pc,           \* position of the run
    source,       \* what the data source holds: [readable, df]
    raw_df,       \* dashboard.main raw_df / analyze df (mutated in place by prepare)
    all_data_df,  \* value returned by prepare_data / load_and_prepare_data
    before_df,    \* dashboard.main before_df
    after_df,     \* dashboard.main after_df
    log,          \* messages and renderings emitted so far, in order
    missing,      \* the `missing` list named in the schema error message
    deltas,       \* <<delta_dl, delta_ul, delta_ping>> of display_comparison_metrics
    lines,        \* main.py: first field of every data line of the csv file
    results,      \* main.py: outcome of the try block per processed line
    failures,     \* main.py: failures counter
    d_args,       \* calculate_delta: <<current, historical>>
    d_res,        \* calculate_delta: returned value
    tables,       \* the grouped means computed for the plots, in order
    again,        \* prepare_data applied to a prepared frame: [ret, df]
    current_time, \* generate-test-data.py: current_time, seconds since 1970
    written       \* generate-test-data.py: the timestamp of the last row written

vars == <<prog, pc, source, raw_df, all_data_df, before_df, after_df, log,
          missing, deltas, lines, results, failures, d_args, d_res,
          tables, again, current_time, written>>

----------------------------------------------------------------------------
(* Bounds of the model *)

MaxRows == 2

----------------------------------------------------------------------------
(* Text and numbers *)

Digits == <<"0", "1", "2", "3", "4", "5", "6", "7", "8", "9">>

IsDigit(c) == \E i \in 1..10 : Digits[i] = c

DigitVal(c) == (CHOOSE i \in 1..10 : Digits[i] = c) - 1

AllDigits(s) == \A i \in 1..Len(s) : IsDigit(s[i])

\* value of a non-empty run of decimal digits
DecVal(s) ==
    LET f[i \in 0..Len(s)] == IF i = 0 THEN 0 ELSE f[i-1] * 10 + DigitVal(s[i])
    IN  f[Len(s)]

\* decimal text of n in exactly w digits (n < 10^w)
Pad(n, w) ==
    LET f[i \in 0..w] == IF i = 0 THEN <<>>
                          ELSE <<Digits[((n \div (10 ^ (i-1))) % 10) + 1]>> \o f[i-1]
    IN  f[w]

Abs(x) == IF x < 0 THEN -x ELSE x

GCD(a, b) ==
    LET g[x \in 0..Abs(a), y \in 0..Abs(b)] ==
            IF y = 0 THEN x ELSE IF x = 0 THEN y
            ELSE IF x >= y THEN g[x % y, y] ELSE g[x, y % x]
    IN  g[Abs(a), Abs(b)]

\* exact rational n/d in lowest terms, d > 0
Rat(n, d) ==
    LET g == GCD(n, d)
        s == IF d < 0 THEN -1 ELSE 1
    IN  IF n = 0 THEN [n |-> 0, d |-> 1]
        ELSE [n |-> (s * n) \div g, d |-> (s * d) \div g]

RatInt(k) == [n |-> k, d |-> 1]

\* a / b with b == 0: ZeroDivisionError on Python numbers, inf or nan on
\* numpy floats; in neither case a number, and no number comes of it
DivisionError == [n |-> 0, d |-> 0]

RatSub(a, b) ==
    IF a.d = 0 \/ b.d = 0 THEN DivisionError
    ELSE Rat(a.n * b.d - b.n * a.d, a.d * b.d)

RatMul(a, b) ==
    IF a.d = 0 \/ b.d = 0 THEN DivisionError
    ELSE Rat(a.n * b.n, a.d * b.d)

RatDiv(a, b) ==
    IF a.d = 0 \/ b.d = 0 \/ b.n = 0 THEN DivisionError
    ELSE Rat(a.n * b.d, a.d * b.n)

----------------------------------------------------------------------------
(* Cells of a DataFrame *)

TextCell(s) == [kind |-> "text", text |-> s, v |-> 0]
NumCell(n)  == [kind |-> "num",  text |-> <<>>, v |-> n]
StrCell(s)  == [kind |-> "str",  text |-> <<s>>, v |-> 0]
NaN         == [kind |-> "nan",  text |-> <<>>, v |-> 0]

isna(c) == c.kind = "nan"

\* a coercion that substitutes 0 for what it cannot read
ToNumericFillZero(c) ==
    IF c.kind = "num" THEN c
    ELSE IF c.kind = "text" /\ Len(c.text) > 0 /\ c.text[1] = "-"
                /\ Len(c.text) > 1 /\ AllDigits(Tail(c.text))
         THEN NumCell(0 - DecVal(Tail(c.text)))
    ELSE IF c.kind = "text" /\ Len(c.text) > 0 /\ AllDigits(c.text)
         THEN NumCell(DecVal(c.text))
    ELSE NumCell(0)

\* pd.to_numeric(errors='coerce') on one cell of the batches modelled here
\* (whole numbers, words, empty cells, digits with a thousands separator): an
\* optionally signed run of digits is its value, a number stays, the rest
\* becomes NaN.
to_numeric(c) ==
    IF c.kind = "num" THEN c
    ELSE IF c.kind = "text" /\ Len(c.text) > 0 /\ c.text[1] = "-"
                /\ Len(c.text) > 1 /\ AllDigits(Tail(c.text))
         THEN NumCell(0 - DecVal(Tail(c.text)))
    ELSE IF c.kind = "text" /\ Len(c.text) > 0 /\ AllDigits(c.text)
         THEN NumCell(DecVal(c.text))
    ELSE NaN

----------------------------------------------------------------------------
(* Dates and times *)

IsLeap(y) == (y % 4 = 0 /\ y % 100 # 0) \/ y % 400 = 0

DaysInMonth(y, m) ==
    IF m = 2 THEN (IF IsLeap(y) THEN 29 ELSE 28)
    ELSE IF m \in {4, 6, 9, 11} THEN 30 ELSE 31

\* days from 1970-01-01 to the civil date y-m-d (proleptic Gregorian)
DaysFromCivil(y, m, d) ==
    LET yy  == IF m <= 2 THEN y - 1 ELSE y
        era == yy \div 400
        yoe == yy - era * 400
        mp  == IF m > 2 THEN m - 3 ELSE m + 9
        doy == (153 * mp + 2) \div 5 + d - 1
        doe == yoe * 365 + yoe \div 4 - yoe \div 100 + doy
    IN  era * 146097 + doe - 719468

\* "YYYY-MM-DD" at s[1..10]
DateOk(s) ==
    /\ Len(s) >= 10
    /\ AllDigits(SubSeq(s, 1, 4)) /\ s[5] = "-"
    /\ AllDigits(SubSeq(s, 6, 7)) /\ s[8] = "-"
    /\ AllDigits(SubSeq(s, 9, 10))
    /\ DecVal(SubSeq(s, 6, 7)) \in 1..12
    /\ DecVal(SubSeq(s, 9, 10)) \in
          1..DaysInMonth(DecVal(SubSeq(s, 1, 4)), DecVal(SubSeq(s, 6, 7)))

DateVal(s) ==
    DaysFromCivil(DecVal(SubSeq(s, 1, 4)), DecVal(SubSeq(s, 6, 7)),
                  DecVal(SubSeq(s, 9, 10))) * 86400

\* two-digit field at s[i..i+1] below `lim`
Field2Ok(s, i, lim) ==
    /\ Len(s) >= i + 1
    /\ AllDigits(SubSeq(s, i, i + 1))
    /\ DecVal(SubSeq(s, i, i + 1)) < lim

Field2(s, i) == DecVal(SubSeq(s, i, i + 1))

\* "YYYY-MM-DD?HH:MM:SS" of 19 characters, ? one of `seps`
DateTime19Ok(s, seps) ==
    /\ Len(s) = 19
    /\ DateOk(s)
    /\ s[11] \in seps
    /\ Field2Ok(s, 12, 24) /\ s[14] = ":"
    /\ Field2Ok(s, 15, 60) /\ s[17] = ":"
    /\ Field2Ok(s, 18, 60)

DateTime19Val(s) ==
    DateVal(s) + Field2(s, 12) * 3600 + Field2(s, 15) * 60 + Field2(s, 18)

----------------------------------------------------------------------------
(* Timestamps: [kind, t, off], t in seconds since the epoch (UTC for an     *)
(* aware value, wall clock for a naive one), off the zone's UTC offset.     *)

NaT == [kind |-> "nat", t |-> 0, off |-> 0]
Invalid == [kind |-> "invalid", t |-> 0, off |-> 0]
Aware(t, off) == [kind |-> "aware", t |-> t, off |-> off]
Naive(t) == [kind |-> "naive", t |-> t, off |-> 0]

\* UTC offset of the zone 'Asia/Tokyo' (no daylight saving time), in seconds
TokyoOffset == 9 * 3600

\* pd.to_datetime on one cell: empty text and NaN give NaT; ISO-8601 with a
\* trailing Z gives a UTC-aware value, without it a naive one.
to_datetime_scalar(c) ==
    IF c.kind = "nan" \/ (c.kind = "text" /\ Len(c.text) = 0) THEN NaT
    ELSE IF c.kind # "text" THEN Invalid
    ELSE IF Len(c.text) = 20 /\ c.text[20] = "Z"
              /\ DateTime19Ok(SubSeq(c.text, 1, 19), {"T", " "})
         THEN Aware(DateTime19Val(SubSeq(c.text, 1, 19)), 0)
    ELSE IF DateTime19Ok(c.text, {"T", " "}) THEN Naive(DateTime19Val(c.text))
    ELSE Invalid

\* Timestamp.tz_localize(zone): the wall clock value is read in the zone
tz_localize(ts, off) ==
    IF ts.kind = "naive" THEN Aware(ts.t - off, off) ELSE ts

\* Timestamp.tz_convert(zone): same instant, shown in the zone
tz_convert(ts, off) ==
    IF ts.kind = "aware" THEN Aware(ts.t, off) ELSE ts

\* wall clock seconds of an aware or naive value
Wall(ts) == ts.t + ts.off

DayNames == <<"Monday", "Tuesday", "Wednesday", "Thursday", "Friday",
              "Saturday", "Sunday">>

\* Timestamp.dayofweek (Monday = 0); 1970-01-01 was a Thursday
dayofweek(ts) == ((Wall(ts) \div 86400) + 3) % 7

\* .dt.hour of one element (NaN for NaT)
hour_of(ts) ==
    IF ts.kind = "nat" THEN NaN ELSE NumCell((Wall(ts) % 86400) \div 3600)

\* .dt.day_name() of one element (NaN for NaT)
day_name(ts) ==
    IF ts.kind = "nat" THEN NaN ELSE StrCell(DayNames[dayofweek(ts) + 1])

\* lambda x: 'Weekday' if x < 5 else 'Weekend'   (x is NaN for NaT, and
\* NaN < 5 is False)
day_type_of(ts) ==
    IF ts.kind # "nat" /\ dayofweek(ts) < 5 THEN StrCell("Weekday")
    ELSE StrCell("Weekend")

\* a < b and a >= b on index values: every comparison with NaT is False
TsLt(a, b) == a.kind = "aware" /\ b.kind = "aware" /\ a.t < b.t
TsGe(a, b) == a.kind = "aware" /\ b.kind = "aware" /\ a.t >= b.t

----------------------------------------------------------------------------
(* DataFrames: [is_none, columns, rows, index, index_name]; a row is a      *)
(* function from the column names to cells, index[i] labels rows[i].        *)

None == [is_none |-> TRUE, columns |-> {}, rows |-> <<>>, index |-> <<>>,
         index_name |-> ""]

RangeLabel(i) == [kind |-> "range", t |-> i, off |-> 0]

\* pd.DataFrame(data) / read_csv result: RangeIndex 0..n-1
DataFrame(columns, rows) ==
    [is_none |-> FALSE, columns |-> columns, rows |-> rows,
     index |-> [i \in 1..Len(rows) |-> RangeLabel(i - 1)], index_name |-> ""]

\* df.empty
empty(df) == Len(df.rows) = 0 \/ df.columns = {}

\* the positions of 1..n that are in S, ascending
KeptIdx(S, n) ==
    LET f[i \in 0..n] == IF i = 0 THEN <<>>
                          ELSE IF i \in S THEN Append(f[i-1], i) ELSE f[i-1]
    IN  f[n]

\* df[mask]: the rows at the positions in S, in their order, with their labels
\* a selection that returns the selected rows last-first
TakeReversed(df, S) ==
    LET idx == KeptIdx(S, Len(df.rows))
    IN  [df EXCEPT !.rows = [k \in 1..Len(idx) |-> df.rows[idx[Len(idx) + 1 - k]]],
                   !.index = [k \in 1..Len(idx) |-> df.index[idx[Len(idx) + 1 - k]]]]

\* df[mask]: the rows of df at the positions of S, in their order
Take(df, S) ==
    LET idx == KeptIdx(S, Len(df.rows))
    IN  [df EXCEPT !.rows = [k \in 1..Len(idx) |-> df.rows[idx[k]]],
                   !.index = [k \in 1..Len(idx) |-> df.index[idx[k]]]]

\* the mapping of df.rename(columns={...})
rename_map ==
    [c \in {"timestamp (UTC)", "ping (ms)", "download (Mbps)", "upload (Mbps)"} |->
        CASE c = "timestamp (UTC)" -> "timestamp_utc"
          [] c = "ping (ms)" -> "ping"
          [] c = "download (Mbps)" -> "download_mbps"
          [] c = "upload (Mbps)" -> "upload_mbps"]

\* a renaming that also takes the column names of the sheet
NewNameSheetAliases(c) ==
    CASE c \in DOMAIN rename_map -> rename_map[c]
      [] c = "timestamp (in UTC)" -> "timestamp_utc"
      [] c = "download (bps)" -> "download_mbps"
      [] c = "upload (bps)" -> "upload_mbps"
      [] OTHER -> c

NewName(c) == IF c \in DOMAIN rename_map THEN rename_map[c] ELSE c

\* df.rename(columns=rename_map, inplace=True)
rename(df) ==
    LET cols == {NewName(c) : c \in df.columns}
        old(n) == CHOOSE c \in df.columns : NewName(c) = n
    IN  [df EXCEPT !.columns = cols,
                   !.rows = [i \in 1..Len(df.rows) |->
                                [n \in cols |-> df.rows[i][old(n)]]]]

numeric_cols == <<"ping", "download_mbps", "upload_mbps">>

required_cols == <<"timestamp_utc">> \o numeric_cols

Range(s) == {s[i] : i \in 1..Len(s)}

\* [col for col in required_cols if col not in df.columns]
missing_cols(df) == SelectSeq(required_cols, LAMBDA c : c \notin df.columns)

\* df[numeric_cols] = df[numeric_cols].apply(pd.to_numeric, errors='coerce')
coerce(df) ==
    [df EXCEPT !.rows = [i \in 1..Len(df.rows) |->
        [c \in df.columns |-> IF c \in Range(numeric_cols)
                              THEN to_numeric(df.rows[i][c])
                              ELSE df.rows[i][c]]]]

\* the rows dropna(subset=numeric_cols) keeps: no NaN in any of the columns
DropnaAllMissing(df) ==
    {i \in 1..Len(df.rows) : \E c \in Range(numeric_cols) : ~isna(df.rows[i][c])}

NotNaRows(df) ==
    {i \in 1..Len(df.rows) : \A c \in Range(numeric_cols) : ~isna(df.rows[i][c])}

\* a dropna without the subset: a row with NaN in any column goes
DropnaAnyColumn(df) ==
    Take(df, {i \in 1..Len(df.rows) : \A c \in df.columns : ~isna(df.rows[i][c])})

\* df.dropna(subset=numeric_cols, inplace=True)
dropna(df) == Take(df, NotNaRows(df))

\* df[name] = values (one value per row)
with_column(df, name, values) ==
    [df EXCEPT !.columns = df.columns \cup {name},
               !.rows = [i \in 1..Len(df.rows) |->
                   [c \in df.columns \cup {name} |->
                       IF c = name THEN values[i] ELSE df.rows[i][c]]]]

\* df.set_index(series, inplace=True); df.index.name = name
set_index(df, series, name) == [df EXCEPT !.index = series, !.index_name = name]

\* pd.to_datetime(df['timestamp_utc']): the element values and what the
\* series as a whole is: "aware" (datetime64[ns, UTC]), "naive"
\* (datetime64[ns]), "mixed" (aware and naive strings together) or "invalid".
dtype_of(kinds) ==
    IF "invalid" \in kinds THEN "invalid"
    ELSE IF "aware" \in kinds /\ "naive" \in kinds THEN "mixed"
    ELSE IF "aware" \in kinds THEN "aware"
    ELSE "naive"

Series(vals) == [vals |-> vals, dtype |-> dtype_of({vals[i].kind : i \in 1..Len(vals)})]

to_datetime(df) ==
    Series([i \in 1..Len(df.rows) |-> to_datetime_scalar(df.rows[i]["timestamp_utc"])])

----------------------------------------------------------------------------
(* dashboard.py *)

\* .dt.tz_convert('Asia/Tokyo') of a series of aware values (or NaT); a naive
\* string of a mixed series is read as UTC by the pandas versions that accept
\* the mix.
dt_tz_convert(dt, off) ==
    [i \in 1..Len(dt.vals) |-> tz_convert(tz_localize(dt.vals[i], 0), off)]

\* whether pd.to_datetime(...).dt.tz_convert(...) raises: an unparseable
\* string, .dt.tz_convert on a tz-naive series, or a mix of aware and naive
\* strings on the pandas versions that refuse it.
ConvertRaises(dt, mixed_as_utc) ==
    \/ dt.dtype \in {"invalid", "naive"}
    \/ dt.dtype = "mixed" /\ ~mixed_as_utc

\* df['hour'], df['day_of_week'], df['day_type'] from the series of timestamps
features(df, series) ==
    LET h  == with_column(df, "hour", [i \in 1..Len(series) |-> hour_of(series[i])])
        dn == with_column(h, "day_of_week", [i \in 1..Len(series) |-> day_name(series[i])])
    IN  with_column(dn, "day_type", [i \in 1..Len(series) |-> day_type_of(series[i])])

\* prepare_data(df): [ret, df, log, missing].  ret is "None", "df" or "raise";
\* df is the argument frame as the call leaves it (it is changed in place).
\* lines 82-87: features from the series, then the series becomes the index
enrich(df, datetime_jst) ==
    [ret |-> "df",
     df |-> set_index(features(df, datetime_jst), datetime_jst, "timestamp_jst"),
     log |-> <<>>, missing |-> <<>>]

\* lines 81-89, dt == pd.to_datetime(df['timestamp_utc'])
prepare_converted(df, dt, mixed_as_utc) ==
    IF ConvertRaises(dt, mixed_as_utc)
    THEN [ret |-> "raise", df |-> df, log |-> <<>>, missing |-> <<>>]
    ELSE enrich(df, dt_tz_convert(dt, TokyoOffset))

\* lines 77-89, df after to_numeric and dropna
prepare_cleaned(df, mixed_as_utc) ==
    IF empty(df)
    THEN [ret |-> "None", df |-> df,
          log |-> <<"error: no valid numeric data">>, missing |-> <<>>]
    ELSE prepare_converted(df, to_datetime(df), mixed_as_utc)

\* a preparation that coerces the numeric columns it finds before it checks
\* the columns
PrepareRenamedCoerceFirst(df, mixed_as_utc) ==
    IF Len(missing_cols(df)) > 0
    THEN [ret |-> "None", df |-> coerce(df),
          log |-> <<"error: missing required columns">>,
          missing |-> missing_cols(df)]
    ELSE prepare_cleaned(dropna(coerce(df)), mixed_as_utc)

\* lines 67-89, df after rename
prepare_renamed(df, mixed_as_utc) ==
    IF Len(missing_cols(df)) > 0
    THEN [ret |-> "None", df |-> df,
          log |-> <<"error: missing required columns">>,
          missing |-> missing_cols(df)]
    ELSE prepare_cleaned(dropna(coerce(df)), mixed_as_utc)

prepare_data(df, mixed_as_utc) ==
    IF df.is_none \/ empty(df)
    THEN [ret |-> "None", df |-> df, log |-> <<"warning: input empty">>, missing |-> <<>>]
    ELSE prepare_renamed(rename(df), mixed_as_utc)

\* pd.read_csv(file_path) / pd.read_csv(file_path, thousands=','): a column
\* whose cells are all empty or numbers becomes numeric (empty gives NaN, the
\* thousands separator is removed), any other column keeps its text.
StripSep(s, sep) == SelectSeq(s, LAMBDA ch : ch \notin sep)

CsvNumber(c, sep) ==
    LET t == StripSep(c.text, sep)
    IN  Len(c.text) = 0 \/ to_numeric(TextCell(t)).kind = "num"

read_csv(df, sep) ==
    LET numeric(c) == /\ \A i \in 1..Len(df.rows) : CsvNumber(df.rows[i][c], sep)
                      /\ \E i \in 1..Len(df.rows) : Len(df.rows[i][c].text) > 0
        allempty(c) == \A i \in 1..Len(df.rows) : Len(df.rows[i][c].text) = 0
    IN  [df EXCEPT !.rows = [i \in 1..Len(df.rows) |->
            [c \in df.columns |->
                IF numeric(c) THEN to_numeric(TextCell(StripSep(df.rows[i][c].text, sep)))
                ELSE IF allempty(c) \/ Len(df.rows[i][c].text) = 0 THEN NaN
                ELSE df.rows[i][c]]]]

\* load_data(use_local_csv): the frame or None
load_data(src, use_local_csv) ==
    IF ~src.readable THEN None
    ELSE IF use_local_csv THEN read_csv(src.df, {})
    ELSE src.df

\* the hardcoded PLAN_CHANGE_TIME_STR, "2025-11-06 19:06:00"
PLAN_CHANGE_TIME_STR ==
    Pad(2025, 4) \o <<"-">> \o Pad(11, 2) \o <<"-">> \o Pad(6, 2) \o <<" ">>
    \o Pad(19, 2) \o <<":">> \o Pad(6, 2) \o <<":">> \o Pad(0, 2)

\* pd.to_datetime(PLAN_CHANGE_TIME_STR).tz_localize('Asia/Tokyo')
PLAN_CHANGE_TIME_JST ==
    tz_localize(to_datetime_scalar(TextCell(PLAN_CHANGE_TIME_STR)), TokyoOffset)

\* all_data_df[all_data_df.index < PLAN_CHANGE_TIME_JST]
split_before(df) ==
    Take(df, {i \in 1..Len(df.rows) : TsLt(df.index[i], PLAN_CHANGE_TIME_JST)})

\* all_data_df[all_data_df.index >= PLAN_CHANGE_TIME_JST]
split_after(df) ==
    Take(df, {i \in 1..Len(df.rows) : TsGe(df.index[i], PLAN_CHANGE_TIME_JST)})

\* df[col].mean() of a non-empty frame of numbers
mean(df, col) ==
    LET sum[i \in 0..Len(df.rows)] ==
            IF i = 0 THEN 0 ELSE sum[i-1] + df.rows[i][col].v
    IN  Rat(sum[Len(df.rows)], Len(df.rows))

\* the group key of row i: the cells of the `by` columns
KeyOf(df, i, by) == [b \in 1..Len(by) |-> df.rows[i][by[b]]]

\* rows that groupby keeps: no NaN among the key cells (dropna=True)
Keyed(df, by) ==
    {i \in 1..Len(df.rows) : \A b \in 1..Len(by) : ~isna(df.rows[i][by[b]])}

SameKey(df, i, by) == {j \in Keyed(df, by) : KeyOf(df, j, by) = KeyOf(df, i, by)}

\* a grouping that adds the values of a group up
GroupbySum(df, by, cols) ==
    { [key |-> KeyOf(df, i, by),
       mean |-> [c \in cols |->
                   RatMul(mean(Take(df, SameKey(df, i, by)), c),
                          RatInt(Cardinality(SameKey(df, i, by))))]] :
        i \in Keyed(df, by) }

\* df.groupby(by)[cols].mean(): one entry per key present
groupby_mean(df, by, cols) ==
    { [key |-> KeyOf(df, i, by),
       mean |-> [c \in cols |-> mean(Take(df, SameKey(df, i, by)), c)]] :
        i \in Keyed(df, by) }

\* float NaN of a table
nan == [n |-> 0, d |-> 0]

\* table.reindex(labels): one entry per label, NaN where the table has none
reindex(table, labels, cols) ==
    { IF \E e \in table : e.key = <<StrCell(labels[l])>>
      THEN CHOOSE e \in table : e.key = <<StrCell(labels[l])>>
      ELSE [key |-> <<StrCell(labels[l])>>, mean |-> [c \in cols |-> nan]] :
        l \in 1..Len(labels) }

\* a table computed for a plot: its name, the frame and key it groups, and
\* whether it was reindexed
Table(name, of, by, table, reindexed) ==
    [name |-> name, of |-> of, by |-> by, table |-> table, reindexed |-> reindexed]

Metrics == {"download_mbps", "upload_mbps", "ping"}

\* plot_comparison_by_hour / plot_comparison_by_day_of_week: the two tables
comparison_tables(before, after, name, by) ==
    IF empty(before) \/ empty(after) THEN <<>>
    ELSE << Table("before_" \o name, "before_df", by,
                  groupby_mean(before, by, Metrics), FALSE),
            Table("after_" \o name, "after_df", by,
                  groupby_mean(after, by, Metrics), FALSE) >>

\* plot_weekday_vs_weekend_performance: cross_stats
cross_stats(df, of) ==
    Table("cross_stats", of, <<"day_type", "hour">>,
          groupby_mean(df, <<"day_type", "hour">>, {"download_mbps", "ping"}), FALSE)

\* the percent change without the guard on a zero baseline
CalculateDeltaNoGuard(current, historical) ==
    RatMul(RatDiv(RatSub(current, historical), historical), RatInt(100))

\* calculate_delta(current, historical)
calculate_delta(current, historical) ==
    IF historical.n = 0 THEN RatInt(0)
    ELSE RatMul(RatDiv(RatSub(current, historical), historical), RatInt(100))

\* display_comparison_metrics(before_df, after_df): [log, deltas]
display_comparison_metrics(before, after) ==
    IF empty(before) \/ empty(after)
    THEN [log |-> <<"header: overall shift", "warning: cannot display comparison metrics">>,
          deltas |-> <<>>]
    ELSE [log |-> <<"header: overall shift", "metric: download", "metric: upload",
                    "metric: ping">>,
          deltas |-> <<calculate_delta(mean(after, "download_mbps"), mean(before, "download_mbps")),
                       calculate_delta(mean(after, "upload_mbps"), mean(before, "upload_mbps")),
                       calculate_delta(mean(after, "ping"), mean(before, "ping"))>>]

\* the three plot_comparison_by_* functions: each returns early on an empty period
plot_comparison(before, after, what) ==
    IF empty(before) \/ empty(after)
    THEN <<"warning: cannot display " \o what>>
    ELSE <<"plot: " \o what>>

\* a comparison tab without the check that both periods have records
TabCompUnguarded(all, before, after) ==
    [log |-> <<"header: side-by-side comparison">>
             \o display_comparison_metrics(before, after).log
             \o <<"plot: comparison over time">>
             \o plot_comparison(before, after, "comparison by hour")
             \o plot_comparison(before, after, "comparison by day of week")
             \o plot_comparison(before, after, "comparison distributions"),
     deltas |-> display_comparison_metrics(before, after).deltas,
     tables |-> comparison_tables(before, after, "hourly", <<"hour">>)
                \o comparison_tables(before, after, "daily", <<"day_of_week">>)]

\* main(), `with tab_comp:` block
tab_comp(all, before, after) ==
    IF ~empty(before) /\ ~empty(after)
    THEN LET m == display_comparison_metrics(before, after)
         IN  [log |-> <<"header: side-by-side comparison">> \o m.log
                      \o <<"plot: comparison over time">>
                      \o plot_comparison(before, after, "comparison by hour")
                      \o plot_comparison(before, after, "comparison by day of week")
                      \o plot_comparison(before, after, "comparison distributions"),
              deltas |-> m.deltas,
              tables |-> comparison_tables(before, after, "hourly", <<"hour">>)
                         \o comparison_tables(before, after, "daily", <<"day_of_week">>)]
    ELSE [log |-> <<"header: side-by-side comparison",
                    "warning: cannot generate comparison plots">>,
          deltas |-> <<>>, tables |-> <<>>]

\* main(), `with tab_before:` / `with tab_after:` block
tab_period(df, period) ==
    IF ~empty(df)
    THEN <<"header: deep dive " \o period, "stats: " \o period,
           "plot: weekday vs weekend " \o period,
           "plot: correlations and distributions " \o period,
           "data: " \o period>>
    ELSE <<"header: deep dive " \o period, "warning: no data " \o period>>

\* the table of the deep-dive tab of a period
period_tables(df, of) == IF ~empty(df) THEN <<cross_stats(df, of)>> ELSE <<>>

----------------------------------------------------------------------------
(* analyze-speedtest.py *)

\* load_and_prepare_data(file_path): [ret, df, log, missing]
\* lines 45-50: features from the index
cli_features(df) ==
    [ret |-> "df", df |-> features(df, df.index),
     log |-> <<"ok: data loaded">>, missing |-> <<>>]

\* lines 42-50, dt == pd.to_datetime(df['timestamp_utc'])
cli_converted(df, dt, mixed_as_utc) ==
    IF ConvertRaises(dt, mixed_as_utc)
    THEN [ret |-> "raise", df |-> df, log |-> <<>>, missing |-> <<>>]
    ELSE cli_features(set_index(df, dt_tz_convert(dt, TokyoOffset), "timestamp_jst"))

\* a cleaning step that reports an empty result as a column problem
CliCleanedColumnMessage(df, mixed_as_utc) ==
    IF empty(df)
    THEN [ret |-> "None", df |-> df,
          log |-> <<"error: missing required columns">>, missing |-> <<>>]
    ELSE cli_converted(df, to_datetime(df), mixed_as_utc)

\* lines 38-50, df after to_numeric and dropna
cli_cleaned(df, mixed_as_utc) ==
    IF empty(df)
    THEN [ret |-> "None", df |-> df, log |-> <<"error: no valid data">>, missing |-> <<>>]
    ELSE cli_converted(df, to_datetime(df), mixed_as_utc)

\* lines 25-50, df after rename
cli_renamed(df, mixed_as_utc) ==
    IF Len(missing_cols(df)) > 0
    THEN [ret |-> "None", df |-> df,
          log |-> <<"error: missing required columns">>,
          missing |-> missing_cols(df)]
    ELSE cli_cleaned(dropna(coerce(df)), mixed_as_utc)

load_and_prepare_data(src, mixed_as_utc) ==
    IF ~src.readable
    THEN [ret |-> "None", df |-> None, log |-> <<"error: file not read">>, missing |-> <<>>]
    ELSE cli_renamed(rename(read_csv(src.df, {","})), mixed_as_utc)

\* plot_performance_by_hour, plot_performance_by_day_of_week and
\* plot_weekday_vs_weekend_performance: hourly_stats, daily_stats, cross_stats
cli_tables(df) ==
    << Table("hourly_stats", "all_data_df", <<"hour">>,
             groupby_mean(df, <<"hour">>, Metrics), FALSE),
       Table("daily_stats", "all_data_df", <<"day_of_week">>,
             reindex(groupby_mean(df, <<"day_of_week">>, Metrics), DayNames, Metrics),
             TRUE),
       cross_stats(df, "all_data_df") >>

----------------------------------------------------------------------------
(* main.py *)

\* line[0][:-1]
strip_last(s) == SubSeq(s, 1, Len(s) - 1)

\* datetime.datetime.fromisoformat(s): YYYY-MM-DD[*HH[:MM[:SS]]] gives a naive
\* datetime, anything else raises ValueError (Invalid)
fromisoformat(s) ==
    IF Len(s) = 19 /\ DateTime19Ok(s, {"T", " "}) THEN Naive(DateTime19Val(s))
    ELSE IF Len(s) = 16 /\ DateOk(s) /\ s[11] \in {"T", " "} /\ Field2Ok(s, 12, 24)
              /\ s[14] = ":" /\ Field2Ok(s, 15, 60)
         THEN Naive(DateVal(s) + Field2(s, 12) * 3600 + Field2(s, 15) * 60)
    ELSE IF Len(s) = 13 /\ DateOk(s) /\ s[11] \in {"T", " "} /\ Field2Ok(s, 12, 24)
         THEN Naive(DateVal(s) + Field2(s, 12) * 3600)
    ELSE IF Len(s) = 10 /\ DateOk(s) THEN Naive(DateVal(s))
    ELSE Invalid

\* the try block of the loop: [ok, time_in_utc, time_in_jst]
parse_line(field) ==
    LET time_in_utc == fromisoformat(strip_last(field))
    IN  IF time_in_utc.kind = "invalid"
        THEN [ok |-> FALSE, time_in_utc |-> Invalid, time_in_jst |-> Invalid]
        ELSE [ok |-> TRUE, time_in_utc |-> time_in_utc,
              time_in_jst |-> Naive(time_in_utc.t + 9 * 3600)]

----------------------------------------------------------------------------
(* generate-test-data.py *)

\* datetime(2025, 8, 22, 0, 0, 0), in seconds since 1970
START_DATE == DaysFromCivil(2025, 8, 22) * 86400

NUMBER_OF_DAYS == 30

TIME_INTERVAL_MINUTES == 5

\* end_date = START_DATE + timedelta(days=NUMBER_OF_DAYS)
end_date == START_DATE + NUMBER_OF_DAYS * 86400

\* a step that takes the interval for seconds
AdvanceIntervalAsSeconds(t, time_jitter_seconds) ==
    t + TIME_INTERVAL_MINUTES + time_jitter_seconds

\* current_time += timedelta(minutes=TIME_INTERVAL_MINUTES, seconds=time_jitter_seconds)
advance(t, time_jitter_seconds) ==
    t + TIME_INTERVAL_MINUTES * 60 + time_jitter_seconds

----------------------------------------------------------------------------
(* Inputs *)

\* "YYYY-MM-DDTHH:MM:SS"
IsoText(y, m, d, hh, mm, ss) ==
    Pad(y, 4) \o <<"-">> \o Pad(m, 2) \o <<"-">> \o Pad(d, 2) \o <<"T">>
    \o Pad(hh, 2) \o <<":">> \o Pad(mm, 2) \o <<":">> \o Pad(ss, 2)

Z(s) == s \o <<"Z">>

\* timestamp fields: Wed 2025-01-01 00:00Z; 16:00Z (next day in Tokyo); one
\* second before the plan change; the plan change; Fri 15:00Z (Saturday in
\* Tokyo); Sun 15:00Z (Monday in Tokyo); no zone designator; empty.
TsZ ==
    { Z(IsoText(2025, 1, 1, 0, 0, 0)),   Z(IsoText(2025, 1, 1, 16, 0, 0)),
      Z(IsoText(2025, 11, 6, 10, 5, 59)), Z(IsoText(2025, 11, 6, 10, 6, 0)),
      Z(IsoText(2025, 11, 7, 15, 0, 0)),  Z(IsoText(2025, 11, 9, 15, 0, 0)) }

TsNoZ == { IsoText(2025, 1, 1, 0, 0, 0) }

TsTexts == TsZ \cup TsNoZ \cup { <<>> }

Measure(ping, download, upload) ==
    [ping |-> ping, download |-> download, upload |-> upload]

Good == Measure(<<"1", "0">>, <<"5", "0">>, <<"2", "0">>)

\* readings with an unreadable or absent field, one with a thousands
\* separator, one of zeros, one more good one
OtherMeasures ==
    { Measure(<<"b", "a", "d">>, <<"5", "1">>, <<"2", "1">>),
      Measure(<<"1", "2">>, <<>>, <<"2", "1">>),
      Measure(<<"1", "0">>, <<"1", ",", "2", "3", "4">>, <<"2", "0">>),
      Measure(<<"0">>, <<"0">>, <<"0">>),
      Measure(<<"2", "0">>, <<"6", "0">>, <<"1", "0">>) }

Reading(ts, m) == [ts |-> ts, m |-> m]

Readings ==
    { Reading(ts, Good) : ts \in TsTexts }
    \cup { Reading(ts, m) : ts \in { Z(IsoText(2025, 1, 1, 0, 0, 0)),
                                     Z(IsoText(2025, 11, 6, 10, 6, 0)) },
                            m \in OtherMeasures }

FewReadings ==
    { Reading(Z(IsoText(2025, 1, 1, 0, 0, 0)), Good),
      Reading(Z(IsoText(2025, 11, 6, 10, 6, 0)),
              Measure(<<"b", "a", "d">>, <<"5", "1">>, <<"2", "1">>)) }

\* headers: the generator's, the canonical names, the sheet's other names,
\* one without the download column, one without timestamp and ping
GeneratorHeader ==
    [ts |-> "timestamp (UTC)", ping |-> "ping (ms)", download |-> "download (Mbps)",
     upload |-> "upload (Mbps)", comment |-> "comment"]

OtherHeaders ==
    { [ts |-> "timestamp_utc", ping |-> "ping", download |-> "download_mbps",
       upload |-> "upload_mbps", comment |-> ""],
      [ts |-> "timestamp (in UTC)", ping |-> "ping (ms)", download |-> "download (bps)",
       upload |-> "upload (bps)", comment |-> ""],
      [ts |-> "timestamp (UTC)", ping |-> "ping (ms)", download |-> "",
       upload |-> "upload (Mbps)", comment |-> "comment"],
      [ts |-> "", ping |-> "", download |-> "download (Mbps)",
       upload |-> "upload (Mbps)", comment |-> ""] }

HeaderCols(h) == {h.ts, h.ping, h.download, h.upload, h.comment} \ {""}

\* the row of text cells a reading gives under a header
RowOf(h, r) ==
    [c \in HeaderCols(h) |->
        IF c = h.ts THEN TextCell(r.ts)
        ELSE IF c = h.ping THEN TextCell(r.m.ping)
        ELSE IF c = h.download THEN TextCell(r.m.download)
        ELSE IF c = h.upload THEN TextCell(r.m.upload)
        ELSE TextCell(<<>>)]

SeqsUpTo(S, n) == UNION { [1..k -> S] : k \in 0..n }

Batches ==
    { DataFrame(HeaderCols(GeneratorHeader),
                [i \in 1..Len(rs) |-> RowOf(GeneratorHeader, rs[i])]) :
        rs \in SeqsUpTo(Readings, MaxRows) }
    \cup { DataFrame(HeaderCols(h), [i \in 1..Len(rs) |-> RowOf(h, rs[i])]) :
             h \in OtherHeaders, rs \in SeqsUpTo(FewReadings, MaxRows) }

Sources ==
    { [readable |-> TRUE, df |-> b] : b \in Batches }
    \cup { [readable |-> FALSE, df |-> DataFrame({}, <<>>)] }

NoSource == [readable |-> FALSE, df |-> DataFrame({}, <<>>)]

\* first fields of the data lines of a csv file (main.py)
LineFields == TsTexts \cup { Z(<<"2", "0", "2", "5">>) }

\* outcomes of random.randint(-60, 60): the two ends and the middle
Jitters == {-60, 0, 60}

\* arguments of calculate_delta
DeltaValues ==
    { RatInt(k) : k \in {-2, -1, 0, 1, 2, 3, 50, 100, 150} } \cup { Rat(1, 2), Rat(5, 2) }

----------------------------------------------------------------------------
(* The runs *)

Idle ==
    /\ raw_df = None /\ all_data_df = None /\ before_df = None /\ after_df = None
    /\ log = <<>> /\ missing = <<>> /\ deltas = <<>>
    /\ results = <<>> /\ failures = 0 /\ d_res = RatInt(0)
    /\ tables = <<>> /\ again = [ret |-> "", df |-> None]
    /\ current_time = 0 /\ written = <<>>

Init ==
    /\ pc = "start"
    /\ Idle
    /\ \/ /\ prog \in {"dashboard", "analyze", "prepare_data"}
          /\ source \in Sources
          /\ lines = <<>> /\ d_args = <<RatInt(0), RatInt(0)>>
       \/ /\ prog = "main.py"
          /\ source = NoSource
          /\ lines \in SeqsUpTo(LineFields, MaxRows)
          /\ d_args = <<RatInt(0), RatInt(0)>>
       \/ /\ prog = "calculate_delta"
          /\ source = NoSource /\ lines = <<>>
          /\ d_args \in DeltaValues \X DeltaValues

\* a caller that goes on with the result without looking whether it is None
ReturnedUnchecked(r, said_before, said_on_none) ==
    /\ raw_df' = r.df
    /\ missing' = r.missing
    /\ all_data_df' = IF r.ret = "df" THEN r.df ELSE None
    /\ log' = log \o said_before \o r.log
    /\ pc' = CASE r.ret = "df" -> "prepared"
               [] r.ret = "None" -> "prepared"
               [] r.ret = "raise" -> "raised"

\* The caller receives r == [ret, df, log, missing] from the preparation: the
\* frame was changed in place, None or the frame is returned, or the
\* exception ends the run.
Returned(r, said_before, said_on_none) ==
    /\ raw_df' = r.df
    /\ missing' = r.missing
    /\ all_data_df' = IF r.ret = "df" THEN r.df ELSE None
    /\ log' = log \o said_before \o r.log
                  \o (IF r.ret = "None" THEN said_on_none ELSE <<>>)
    /\ pc' = CASE r.ret = "df" -> "prepared"
               [] r.ret = "None" -> "done"
               [] r.ret = "raise" -> "raised"

\* dashboard main(): raw_df = load_data(use_local_csv=use_local)
LoadData ==
    /\ prog = "dashboard" /\ pc = "start"
    /\ \E use_local \in BOOLEAN :
          /\ raw_df' = load_data(source, use_local)
          /\ log' = log \o (IF source.readable THEN <<"success: loaded">>
                            ELSE <<"error: load failed">>)
    /\ pc' = "loaded"
    /\ UNCHANGED <<prog, source, all_data_df, before_df, after_df, missing, deltas,
                   lines, results, failures, d_args, d_res,
                   tables, again, current_time, written>>

\* dashboard main(): `if raw_df is not None: all_data_df = prepare_data(raw_df)`
\* and the two else branches
PrepareData ==
    /\ prog = "dashboard" /\ pc = "loaded"
    /\ IF raw_df.is_none
       THEN /\ log' = log \o <<"warning: could not load data">>
            /\ pc' = "done"
            /\ UNCHANGED <<raw_df, all_data_df, missing>>
       ELSE \E mixed_as_utc \in BOOLEAN :
              Returned(prepare_data(raw_df, mixed_as_utc),
                       <<>>, <<"error: could not process the data">>)
    /\ UNCHANGED <<prog, source, before_df, after_df, deltas,
                   lines, results, failures, d_args, d_res,
                   tables, again, current_time, written>>

\* dashboard main(): the split and the counts
SplitData ==
    /\ prog = "dashboard" /\ pc = "prepared"
    /\ before_df' = split_before(all_data_df)
    /\ after_df' = split_after(all_data_df)
    /\ log' = log \o <<"success: processed records", "info: found before and after">>
                  \o (IF empty(split_before(all_data_df))
                      THEN <<"error: no data Before">> ELSE <<>>)
                  \o (IF empty(split_after(all_data_df))
                      THEN <<"error: no data After">> ELSE <<>>)
    /\ pc' = "split"
    /\ UNCHANGED <<prog, source, raw_df, all_data_df, missing, deltas,
                   lines, results, failures, d_args, d_res,
                   tables, again, current_time, written>>

Rendered(t) ==
    /\ log' = log \o t.log
    /\ deltas' = t.deltas
    /\ tables' = tables \o t.tables

\* dashboard main(): with tab_comp
TabComp ==
    /\ prog = "dashboard" /\ pc = "split"
    /\ Rendered(tab_comp(all_data_df, before_df, after_df))
    /\ pc' = "tab_comp"
    /\ UNCHANGED <<prog, source, raw_df, all_data_df, before_df, after_df, missing,
                   lines, results, failures, d_args, d_res,
                   again, current_time, written>>

\* dashboard main(): with tab_before
TabBefore ==
    /\ prog = "dashboard" /\ pc = "tab_comp"
    /\ log' = log \o tab_period(before_df, "Before")
    /\ pc' = "tab_before"
    /\ tables' = tables \o period_tables(before_df, "before_df")
    /\ UNCHANGED <<prog, source, raw_df, all_data_df, before_df, after_df, missing,
                   deltas, lines, results, failures, d_args, d_res,
                   again, current_time, written>>

\* dashboard main(): with tab_after
TabAfter ==
    /\ prog = "dashboard" /\ pc = "tab_before"
    /\ log' = log \o tab_period(after_df, "After")
    /\ pc' = "done"
    /\ tables' = tables \o period_tables(after_df, "after_df")
    /\ UNCHANGED <<prog, source, raw_df, all_data_df, before_df, after_df, missing,
                   deltas, lines, results, failures, d_args, d_res,
                   again, current_time, written>>

\* analyze_internet_speed: df = load_and_prepare_data(file_path); if df is None: return
LoadAndPrepare ==
    /\ prog = "analyze" /\ pc = "start"
    /\ \E mixed_as_utc \in BOOLEAN :
          Returned(load_and_prepare_data(source, mixed_as_utc),
                   <<"loading and preparing">>, <<>>)
    /\ UNCHANGED <<prog, source, before_df, after_df, deltas,
                   lines, results, failures, d_args, d_res,
                   tables, again, current_time, written>>

\* analyze_internet_speed: describe() and the five plots
Analyze ==
    /\ prog = "analyze" /\ pc = "prepared"
    /\ log' = log \o <<"stats: all", "plot: over time", "plot: by hour",
                       "plot: by day of week", "plot: correlations and distributions",
                       "plot: weekday vs weekend", "ok: analysis complete">>
    /\ pc' = "done"
    /\ tables' = cli_tables(all_data_df)
    /\ UNCHANGED <<prog, source, raw_df, all_data_df, before_df, after_df, missing,
                   deltas, lines, results, failures, d_args, d_res,
                   again, current_time, written>>

\* main.py: one iteration of `for line in data`
ParseLine ==
    /\ prog = "main.py" /\ pc = "start"
    /\ Len(results) < Len(lines)
    /\ LET r == parse_line(lines[Len(results) + 1])
       IN  /\ results' = Append(results, r)
           /\ failures' = IF r.ok THEN failures ELSE failures + 1
           /\ log' = IF r.ok THEN log ELSE Append(log, "parse failed")
    /\ UNCHANGED <<prog, pc, source, raw_df, all_data_df, before_df, after_df, missing,
                   deltas, lines, d_args, d_res,
                   tables, again, current_time, written>>

\* main.py: print(f"Total failures: {failures}")
PrintTotal ==
    /\ prog = "main.py" /\ pc = "start"
    /\ Len(results) = Len(lines)
    /\ log' = Append(log, "total failures")
    /\ pc' = "done"
    /\ UNCHANGED <<prog, source, raw_df, all_data_df, before_df, after_df, missing,
                   deltas, lines, results, failures, d_args, d_res,
                   tables, again, current_time, written>>

\* what prepare_data gives for the frame an earlier call of it returned
prepared_again(r, mixed_as_utc) ==
    IF r.ret = "df"
    THEN [ret |-> prepare_data(r.df, mixed_as_utc).ret,
          df |-> prepare_data(r.df, mixed_as_utc).df]
    ELSE [ret |-> "", df |-> None]

Prepared2(r, mixed_as_utc) ==
    /\ raw_df' = r.df
    /\ all_data_df' = IF r.ret = "df" THEN r.df ELSE None
    /\ missing' = r.missing
    /\ log' = log \o r.log
    /\ again' = prepared_again(r, mixed_as_utc)

\* prepare_data(prepare_data(raw_df)) in one process
PrepareTwice ==
    /\ prog = "prepare_data" /\ pc = "start"
    /\ \E use_local \in BOOLEAN, mixed_as_utc \in BOOLEAN :
          Prepared2(prepare_data(load_data(source, use_local), mixed_as_utc), mixed_as_utc)
    /\ pc' = "done"
    /\ UNCHANGED <<prog, source, before_df, after_df, deltas, lines, results, failures,
                   d_args, d_res, tables, current_time, written>>

\* generate_test_data: end_date, current_time = START_DATE, the header row
WriteHeader ==
    /\ prog = "generate-test-data.py" /\ pc = "start"
    /\ current_time' = START_DATE
    /\ log' = Append(log, "header row")
    /\ pc' = "loop"
    /\ UNCHANGED <<prog, source, raw_df, all_data_df, before_df, after_df, missing,
                   deltas, lines, results, failures, d_args, d_res, tables, again,
                   written>>

\* generate_test_data: one iteration of `while current_time < end_date`; the
\* row written holds current_time to the second, which is all of it
WriteRow ==
    /\ prog = "generate-test-data.py" /\ pc = "loop"
    /\ current_time < end_date
    /\ \E time_jitter_seconds \in Jitters :
          /\ current_time' = advance(current_time, time_jitter_seconds)
          /\ written' = <<advance(current_time, time_jitter_seconds)>>
    /\ UNCHANGED <<prog, pc, source, raw_df, all_data_df, before_df, after_df, log,
                   missing, deltas, lines, results, failures, d_args, d_res, tables, again>>

\* generate_test_data: the loop ends, the file is closed, the message printed
Generated ==
    /\ prog = "generate-test-data.py" /\ pc = "loop"
    /\ ~(current_time < end_date)
    /\ log' = Append(log, "ok: generated test data")
    /\ pc' = "done"
    /\ UNCHANGED <<prog, source, raw_df, all_data_df, before_df, after_df, missing,
                   deltas, lines, results, failures, d_args, d_res, tables, again,
                   current_time, written>>

\* a call of calculate_delta(current, historical)
CallDelta ==
    /\ prog = "calculate_delta" /\ pc = "start"
    /\ d_res' = calculate_delta(d_args[1], d_args[2])
    /\ pc' = "done"
    /\ UNCHANGED <<prog, source, raw_df, all_data_df, before_df, after_df, log, missing,
                   deltas, lines, results, failures, d_args,
                   tables, again, current_time, written>>

Next ==
    \/ LoadData
    \/ PrepareData
    \/ SplitData
    \/ TabComp
    \/ TabBefore
    \/ TabAfter
    \/ LoadAndPrepare
    \/ Analyze
    \/ ParseLine
    \/ PrintTotal
    \/ CallDelta
    \/ PrepareTwice

Spec == Init /\ [][Next]_vars

\* generate-test-data.py, a program of its own: one sequential process that
\* keeps running once started
GenInit ==
    /\ prog = "generate-test-data.py" /\ pc = "start"
    /\ Idle
    /\ source = NoSource /\ lines = <<>> /\ d_args = <<RatInt(0), RatInt(0)>>

GenNext ==
    \/ WriteHeader
    \/ WriteRow
    \/ Generated

GenSpec == GenInit /\ [][GenNext]_vars /\ WF_vars(GenNext)

----------------------------------------------------------------------------
(* Vocabulary of the properties *)

Said(tag) == \E i \in 1..Len(log) : log[i] = tag

\* the run has a prepared record set (prepare returned a frame)
Prepared == prog \in {"dashboard", "analyze"} /\ ~all_data_df.is_none

\* the dashboard run has split the prepared set
Split == prog = "dashboard" /\ ~all_data_df.is_none /\ pc \notin {"start", "loaded", "prepared"}

\* the preparation has returned or raised
AfterPrepare ==
    \/ prog = "dashboard" /\ pc \notin {"start", "loaded"}
    \/ prog = "analyze" /\ pc # "start"

\* the canonical field a source column stands for under the alias table of
\* the code
Canonical(c) ==
    CASE c = "timestamp (UTC)" -> "timestamp_utc"
      [] c = "ping (ms)" -> "ping"
      [] c = "download (Mbps)" -> "download_mbps"
      [] c = "upload (Mbps)" -> "upload_mbps"
      [] OTHER -> c

\* an optionally signed run of digits
IsNumberText(t) ==
    \/ Len(t) > 0 /\ \A i \in 1..Len(t) : IsDigit(t[i])
    \/ Len(t) > 1 /\ t[1] = "-" /\ \A i \in 2..Len(t) : IsDigit(t[i])

NumberOfText(t) ==
    IF t[1] = "-" THEN 0 - DecVal(SubSeq(t, 2, Len(t))) ELSE DecVal(t)

\* the cell is present and is (or reads as) a number
Parseable(c) == c.kind = "num" \/ (c.kind = "text" /\ IsNumberText(c.text))

\* the text of a cell (an absent cell has none)
TextOf(c) == IF c.kind = "text" THEN c.text ELSE <<>>

ValueOf(c) == IF c.kind = "num" THEN c.v ELSE NumberOfText(c.text)

\* the raw batch normalization works on: what the file or sheet source
\* delivered (the file source of the CLI removes thousands separators)
Received == IF prog = "analyze" THEN read_csv(source.df, {","}) ELSE source.df

\* the source column of the batch that stands for canonical field f
SourceCol(f) == CHOOSE c \in Received.columns : Canonical(c) = f

HasField(f) == \E c \in Received.columns : Canonical(c) = f

\* rows of the batch with ping, download and upload all present and numeric
ValidRows ==
    {i \in 1..Len(Received.rows) :
        \A k \in 1..Len(numeric_cols) : Parseable(Received.rows[i][SourceCol(numeric_cols[k])])}

RejectedRows == (1..Len(Received.rows)) \ ValidRows

\* number of positions of df holding this label and this row
Count(df, label, row) ==
    Cardinality({i \in 1..Len(df.rows) : df.index[i] = label /\ df.rows[i] = row})

----------------------------------------------------------------------------
(* C1 *)

\* C1 (as claimed): after the split every prepared record is in exactly one
\* of before_df and after_df, every record of before_df has a local timestamp
\* earlier than the plan change and every record of after_df one at or after
\* it.
C1_Partition ==
    Split =>
      /\ \A i \in 1..Len(all_data_df.rows) :
            Count(before_df, all_data_df.index[i], all_data_df.rows[i])
              + Count(after_df, all_data_df.index[i], all_data_df.rows[i])
            = Count(all_data_df, all_data_df.index[i], all_data_df.rows[i])
      /\ \A j \in 1..Len(before_df.rows) :
            before_df.index[j].kind = "aware" /\ before_df.index[j].t < PLAN_CHANGE_TIME_JST.t
      /\ \A j \in 1..Len(after_df.rows) :
            after_df.index[j].kind = "aware" /\ after_df.index[j].t >= PLAN_CHANGE_TIME_JST.t

\* the same for the records that have a timestamp
C1_PartitionOfDated ==
    Split =>
      /\ \A i \in 1..Len(all_data_df.rows) :
            all_data_df.index[i].kind = "aware" =>
              Count(before_df, all_data_df.index[i], all_data_df.rows[i])
                + Count(after_df, all_data_df.index[i], all_data_df.rows[i])
              = Count(all_data_df, all_data_df.index[i], all_data_df.rows[i])
      /\ \A j \in 1..Len(before_df.rows) :
            before_df.index[j].kind = "aware" /\ before_df.index[j].t < PLAN_CHANGE_TIME_JST.t
      /\ \A j \in 1..Len(after_df.rows) :
            after_df.index[j].kind = "aware" /\ after_df.index[j].t >= PLAN_CHANGE_TIME_JST.t

----------------------------------------------------------------------------
(* C2 *)

\* C2 (as claimed): the caller of the normalization holds a rejected-row
\* count that, added to the number of records returned, gives the number of
\* rows of the batch.  The row counts the caller holds after the call are
\* those of the frame returned and of the frame it passed in.
C2_ReportedCountAddsUp ==
    Prepared =>
      Len(all_data_df.rows) + (Len(raw_df.rows) - Len(all_data_df.rows))
        = Len(source.df.rows)

\* C2 (amended): no rejected-row count is reported, but the number of records
\* returned plus the number of batch rows with an absent or non-numeric
\* ping, download or upload equals the number of rows of the batch; the
\* empty-after-cleaning failure is returned exactly when every row is such.
C2_ReturnedPlusRejected ==
    /\ Prepared =>
         Len(all_data_df.rows) + Cardinality(RejectedRows) = Len(source.df.rows)
    /\ (Said("error: no valid numeric data") \/ Said("error: no valid data")) =>
         /\ all_data_df.is_none
         /\ Cardinality(RejectedRows) = Len(source.df.rows)

C2_Witness ==
    /\ Prepared
    /\ Cardinality(RejectedRows) = 1
    /\ Len(all_data_df.rows) = 1

----------------------------------------------------------------------------
(* C3 *)

\* C3: the prepared record set holds exactly the batch rows whose ping,
\* download and upload are all present and numeric, in their order, each with
\* the numbers and the timestamp text of its row (no value substituted).
C3_ExactlyValidRows ==
    Prepared =>
      LET keep == KeptIdx(ValidRows, Len(Received.rows))
      IN  /\ Len(all_data_df.rows) = Len(keep)
          /\ \A k \in 1..Len(keep) :
                /\ \A n \in 1..Len(numeric_cols) :
                      all_data_df.rows[k][numeric_cols[n]]
                        = NumCell(ValueOf(Received.rows[keep[k]][SourceCol(numeric_cols[n])]))
                /\ TextOf(all_data_df.rows[k]["timestamp_utc"])
                     = TextOf(Received.rows[keep[k]][SourceCol("timestamp_utc")])

C3_Witness ==
    /\ Prepared
    /\ Len(all_data_df.rows) = 1
    /\ Len(source.df.rows) = 2
    /\ 1 \in RejectedRows
    /\ all_data_df.rows[1]["ping"] = NumCell(20)

----------------------------------------------------------------------------
(* C4 *)

\* C4: calculate_delta returns 0 for a zero baseline and otherwise exactly
\* (current - baseline) / baseline * 100, never a division error; baseline
\* 100 with current 150 gives 50, with current 50 gives -50.  The deltas the
\* dashboard shows are such values too.
C4_PercentChange ==
    /\ (prog = "calculate_delta" /\ pc = "done") =>
         LET current  == d_args[1]
             baseline == d_args[2]
         IN  /\ d_res.d > 0
             /\ baseline.n = 0 => d_res = RatInt(0)
             /\ baseline.n # 0 =>
                  d_res.n * (baseline.n * current.d)
                    = d_res.d * 100 * (current.n * baseline.d - baseline.n * current.d)
             /\ (baseline = RatInt(100) /\ current = RatInt(150)) => d_res = RatInt(50)
             /\ (baseline = RatInt(100) /\ current = RatInt(50)) => d_res = RatInt(-50)
    /\ \A i \in 1..Len(deltas) : deltas[i].d > 0

C4_Witness ==
    /\ prog = "calculate_delta" /\ pc = "done"
    /\ d_args[2] = RatInt(0) /\ d_args[1] = RatInt(150)
    /\ d_res = RatInt(0)

----------------------------------------------------------------------------
(* C5 *)

\* the text without its trailing Z, when it has one
StripIfPresent(s) ==
    IF Len(s) > 0 /\ s[Len(s)] = "Z" THEN SubSeq(s, 1, Len(s) - 1) ELSE s

\* the timestamp text denotes an instant (ISO-8601, with or without the Z)
IsIso(t) == DateTime19Ok(StripIfPresent(t), {"T", " "})

InstantOf(t) == DateTime19Val(StripIfPresent(t))

\* hour and day number (days since 1970-01-01) on the wall clock of UTC+9,
\* from the fields of the UTC text
LocalHour(t) == (Field2(t, 12) + 9) % 24

LocalDay(t) ==
    DaysFromCivil(DecVal(SubSeq(t, 1, 4)), Field2(t, 6), Field2(t, 9))
      + (Field2(t, 12) + 9) \div 24

\* 1970-01-05 was a Monday
LocalDayName(t) == DayNames[((LocalDay(t) - 4) % 7) + 1]

\* C5 (as claimed): every prepared record has an hour in 0..23, a weekday
\* name and a day type that are those of its timestamp on the UTC+9 wall
\* clock; day_type is Weekday exactly for Monday to Friday.
C5_LocalFeatures ==
    Prepared =>
      \A k \in 1..Len(all_data_df.rows) :
        LET r == all_data_df.rows[k]
            t == TextOf(r["timestamp_utc"])
        IN  /\ r["hour"].kind = "num" /\ r["hour"].v \in 0..23
            /\ IsIso(t)
            /\ r["hour"].v = LocalHour(t)
            /\ r["day_of_week"] = StrCell(LocalDayName(t))
            /\ r["day_type"] = IF LocalDayName(t) \in {"Saturday", "Sunday"}
                               THEN StrCell("Weekend") ELSE StrCell("Weekday")

\* the same for the records that have a timestamp
C5_LocalFeaturesOfDated ==
    Prepared =>
      \A k \in 1..Len(all_data_df.rows) :
        LET r == all_data_df.rows[k]
            t == TextOf(r["timestamp_utc"])
        IN  Len(t) > 0 =>
            /\ r["hour"].kind = "num" /\ r["hour"].v \in 0..23
            /\ IsIso(t)
            /\ r["hour"].v = LocalHour(t)
            /\ r["day_of_week"] = StrCell(LocalDayName(t))
            /\ r["day_type"] = IF LocalDayName(t) \in {"Saturday", "Sunday"}
                               THEN StrCell("Weekend") ELSE StrCell("Weekday")

----------------------------------------------------------------------------
(* C6 *)

ComparisonOutput ==
    {"metric: download", "metric: upload", "metric: ping",
     "plot: comparison over time", "plot: comparison by hour",
     "plot: comparison by day of week", "plot: comparison distributions"}

PeriodOutput(period) ==
    {"stats: " \o period, "plot: weekday vs weekend " \o period,
     "plot: correlations and distributions " \o period, "data: " \o period}

\* C6: when before_df or after_df has no records the run still goes on to its
\* end, shows no comparison output and computes no delta, shows no statistics
\* of the empty period, and shows the analysis of a period that has records.
C6_EmptyPartition ==
    (Split /\ (Len(before_df.rows) = 0 \/ Len(after_df.rows) = 0)) =>
      /\ pc # "done" => ENABLED Next
      /\ \A m \in ComparisonOutput : ~Said(m)
      /\ deltas = <<>>
      /\ Len(before_df.rows) = 0 => \A m \in PeriodOutput("Before") : ~Said(m)
      /\ Len(after_df.rows) = 0 => \A m \in PeriodOutput("After") : ~Said(m)
      /\ (pc = "done" /\ Len(before_df.rows) > 0) =>
            \A m \in PeriodOutput("Before") : Said(m)
      /\ (pc = "done" /\ Len(after_df.rows) > 0) =>
            \A m \in PeriodOutput("After") : Said(m)

C6_Witness ==
    /\ Split /\ pc = "done"
    /\ Len(before_df.rows) = 0 /\ Len(after_df.rows) = 2
    /\ Said("stats: After") /\ Said("warning: no data Before")
    /\ Said("warning: cannot generate comparison plots")

----------------------------------------------------------------------------
(* C7 *)

\* the canonical fields no column of the batch stands for
MissingFields == SelectSeq(required_cols, LAMBDA f : ~HasField(f))

\* the preparation got as far as the check of the columns
ColumnsChecked ==
    /\ AfterPrepare /\ source.readable
    /\ prog = "dashboard" => Len(source.df.rows) > 0

\* the frame the preparation was given
Given(use_local) == IF prog = "analyze" THEN Received ELSE load_data(source, use_local)

\* C7 (as claimed): with a canonical column absent the failure names exactly
\* the missing fields, nothing is returned, and the frame passed in is as it
\* was received.
C7_InputAsReceived ==
    (ColumnsChecked /\ MissingFields # <<>>) =>
      /\ Said("error: missing required columns") /\ missing = MissingFields
      /\ all_data_df.is_none
      /\ \E use_local \in BOOLEAN : raw_df = Given(use_local)

\* C7 (amended): with a canonical column absent the failure names exactly the
\* missing fields and nothing is returned; no cell is coerced, no row dropped
\* and no feature added, but the frame passed in has had its alias columns
\* renamed to the canonical names.  Without an absent column no such failure
\* is reported.
C7_OnlyRenamed ==
    /\ (ColumnsChecked /\ MissingFields # <<>>) =>
         /\ Said("error: missing required columns") /\ missing = MissingFields
         /\ all_data_df.is_none /\ pc = "done"
         /\ \E use_local \in BOOLEAN :
              LET given == Given(use_local)
              IN  /\ raw_df.columns = {Canonical(c) : c \in given.columns}
                  /\ raw_df.index = given.index
                  /\ Len(raw_df.rows) = Len(given.rows)
                  /\ \A i \in 1..Len(given.rows) : \A c \in given.columns :
                        raw_df.rows[i][Canonical(c)] = given.rows[i][c]
    /\ Said("error: missing required columns") => MissingFields # <<>>

C7_Witness ==
    /\ prog = "dashboard" /\ pc = "done"
    /\ Said("error: missing required columns")
    /\ missing = <<"download_mbps">>
    /\ Len(raw_df.rows) = 2
    /\ "ping" \in raw_df.columns /\ "ping (ms)" \in source.df.columns

----------------------------------------------------------------------------
(* C8 *)

\* what is wrong with the input of the run, from the input alone
Kind ==
    IF ~source.readable THEN "unreadable"
    ELSE IF prog = "dashboard" /\ Len(source.df.rows) = 0 THEN "empty input"
    ELSE IF MissingFields # <<>> THEN "schema mismatch"
    ELSE IF ValidRows = {} THEN "empty after cleaning"
    ELSE "none"

FailureMessages ==
    {"error: load failed", "error: file not read", "warning: input empty",
     "error: missing required columns", "error: no valid numeric data",
     "error: no valid data"}

MessageOf(kind) ==
    CASE kind = "unreadable" ->
           IF prog = "dashboard" THEN "error: load failed" ELSE "error: file not read"
      [] kind = "empty input" -> "warning: input empty"
      [] kind = "schema mismatch" -> "error: missing required columns"
      [] kind = "empty after cleaning" ->
           IF prog = "dashboard" THEN "error: no valid numeric data" ELSE "error: no valid data"

\* what the caller receives from the preparation of a source
ResultOfCli(src) ==
    IF load_and_prepare_data(src, TRUE).ret = "df"
    THEN load_and_prepare_data(src, TRUE).df ELSE None

ResultOfPrepare(df) ==
    IF prepare_data(df, TRUE).ret = "df" THEN prepare_data(df, TRUE).df ELSE None

\* a batch without the download column
MismatchedBatch ==
    DataFrame({"timestamp (UTC)", "ping (ms)", "upload (Mbps)"},
              <<[c \in {"timestamp (UTC)", "ping (ms)", "upload (Mbps)"} |->
                    TextCell(<<"1">>)]>>)

\* C8 (as claimed): the result the caller receives when every row was
\* rejected differs from the result for a schema mismatch and from the
\* result for an unreadable source.
C8_ResultsDiffer ==
    (AfterPrepare /\ Kind = "empty after cleaning") =>
      IF prog = "analyze"
      THEN /\ all_data_df # ResultOfCli(NoSource)
           /\ all_data_df # ResultOfCli([readable |-> TRUE, df |-> MismatchedBatch])
      ELSE all_data_df # ResultOfPrepare(MismatchedBatch)

\* C8 (amended): every failure kind gives the caller the same result, None,
\* and ends the run; the kinds differ only in the message emitted, each kind
\* having a message of its own and a failing run emitting that one only.
C8_SameResultOwnMessage ==
    (AfterPrepare /\ Kind # "none") =>
      /\ all_data_df.is_none
      /\ pc = "done"
      /\ \A m \in FailureMessages : Said(m) <=> m = MessageOf(Kind)

C8_Witness ==
    /\ prog = "analyze" /\ pc = "done"
    /\ Kind = "empty after cleaning"
    /\ Len(source.df.rows) = 2
    /\ Said("error: no valid data")
    /\ all_data_df = ResultOfCli(NoSource)

----------------------------------------------------------------------------
(* C9 *)

\* the batch has every column and a valid row, and every timestamp of it is
\* ISO-8601 text, with or without the Z
IsoBatch ==
    /\ source.readable /\ Kind = "none"
    /\ \A i \in 1..Len(Received.rows) :
          IsIso(TextOf(Received.rows[i][SourceCol("timestamp_utc")]))

\* C9 (as claimed): a timestamp is accepted with and without the trailing Z
\* and both forms denote the same instant: main.py parses either form to the
\* instant it denotes, and the preparation takes a batch of either form.
C9_BothFormsAccepted ==
    /\ prog = "main.py" =>
         \A i \in 1..Len(results) :
            IsIso(lines[i]) =>
              /\ results[i].ok
              /\ results[i].time_in_utc.t = InstantOf(lines[i])
    /\ (AfterPrepare /\ IsoBatch) => Prepared

----------------------------------------------------------------------------
(* C10 *)

SheetColumns == {"timestamp (in UTC)", "ping (ms)", "download (bps)", "upload (bps)"}

SheetBatch ==
    /\ ColumnsChecked
    /\ source.df.columns = SheetColumns

\* C10 (as claimed): a batch with the columns timestamp (in UTC), ping (ms),
\* download (bps), upload (bps) is not reported as a schema mismatch.
C10_SheetAliasesAccepted ==
    SheetBatch => ~Said("error: missing required columns")

\* C10 (amended): the aliases that resolve are timestamp (UTC), ping (ms),
\* download (Mbps) and upload (Mbps): a prepared set has the four canonical
\* columns and none of these alias columns.  A batch with the columns
\* timestamp (in UTC), ping (ms), download (bps), upload (bps) is reported as
\* a schema mismatch naming timestamp_utc, download_mbps and upload_mbps, and
\* nothing is returned (no conversion from bps takes place).
C10_OnlyFourAliases ==
    /\ SheetBatch =>
         /\ Said("error: missing required columns")
         /\ missing = <<"timestamp_utc", "download_mbps", "upload_mbps">>
         /\ all_data_df.is_none
    /\ Prepared =>
         /\ Range(required_cols) \subseteq all_data_df.columns
         /\ all_data_df.columns
              \cap {"timestamp (UTC)", "ping (ms)", "download (Mbps)", "upload (Mbps)"} = {}

C10_Witness ==
    /\ SheetBatch /\ pc = "done"
    /\ Len(source.df.rows) = 2
    /\ missing = <<"timestamp_utc", "download_mbps", "upload_mbps">>
    /\ "download (bps)" \in raw_df.columns

----------------------------------------------------------------------------
(* C11 *)

\* the timestamp texts of the rows of a frame, in the order of the rows
StampsOf(df, col) == [i \in 1..Len(df.rows) |-> TextOf(df.rows[i][col])]

\* the texts of the valid rows of the batch, in the order of the batch
ValidStamps ==
    LET all == StampsOf(Received, SourceCol("timestamp_utc"))
        keep == SelectSeq([i \in 1..Len(all) |-> i], LAMBDA i : i \in ValidRows)
    IN  [k \in 1..Len(keep) |-> all[keep[k]]]

\* the plan change, 2025-11-06 19:06:00 in Tokyo, is 1762423560 s after 1970
IsBeforeCutover(x) == x.kind = "aware" /\ x.t < 1762423560
IsAfterCutover(x)  == x.kind = "aware" /\ x.t >= 1762423560

\* dated elements of a sequence of index values never go back in time
Ascending(index) ==
    \A i \in 1..Len(index) : \A j \in 1..Len(index) :
        (i < j /\ index[i].kind = "aware" /\ index[j].kind = "aware") =>
            index[i].t <= index[j].t

\* C11 (as claimed): whatever the order of the rows of the batch, the
\* prepared record set is in ascending order of timestamp, and so are
\* before_df and after_df.
C11_SortedAscending ==
    /\ Prepared => Ascending(all_data_df.index)
    /\ Split => Ascending(before_df.index) /\ Ascending(after_df.index)

\* C11 (amended): nothing is sorted.  The prepared record set holds the valid
\* rows in the order of the batch, each indexed by the instant of its
\* timestamp text, and before_df and after_df hold their records in the order
\* of the prepared set; they are in ascending order of timestamp when the
\* rows of the batch are.
C11_InputOrderKept ==
    /\ Prepared =>
         /\ StampsOf(all_data_df, "timestamp_utc") = ValidStamps
         /\ Len(all_data_df.index) = Len(ValidStamps)
         /\ \A k \in 1..Len(ValidStamps) :
               IF Len(ValidStamps[k]) = 0
               THEN all_data_df.index[k].kind = "nat"
               ELSE /\ all_data_df.index[k].kind = "aware"
                    /\ all_data_df.index[k].t = InstantOf(ValidStamps[k])
    /\ Split =>
         /\ before_df.index = SelectSeq(all_data_df.index, IsBeforeCutover)
         /\ after_df.index = SelectSeq(all_data_df.index, IsAfterCutover)
         /\ \A k \in 1..Len(before_df.rows) :
               before_df.rows[k]["hour"] = hour_of(before_df.index[k])
         /\ \A k \in 1..Len(after_df.rows) :
               after_df.rows[k]["hour"] = hour_of(after_df.index[k])

C11_Witness ==
    /\ Split
    /\ Len(all_data_df.rows) = 2 /\ Len(after_df.rows) = 2
    /\ all_data_df.index[1].kind = "aware" /\ all_data_df.index[2].kind = "aware"
    /\ all_data_df.index[1].t > all_data_df.index[2].t
    /\ after_df.index[1].t > after_df.index[2].t

----------------------------------------------------------------------------
(* C12 *)

\* the frame a table was computed from
FrameOf(t) ==
    CASE t.of = "before_df" -> before_df
      [] t.of = "after_df" -> after_df
      [] OTHER -> all_data_df

\* the canonical enumeration of the keys of a grouping
CanonicalKeys(by) ==
    CASE by = <<"hour">> -> { <<NumCell(h)>> : h \in 0..23 }
      [] by = <<"day_of_week">> ->
           { <<StrCell(d)>> : d \in {"Monday", "Tuesday", "Wednesday", "Thursday",
                                     "Friday", "Saturday", "Sunday"} }
      [] by = <<"day_type", "hour">> ->
           { <<StrCell(d), NumCell(h)>> : d \in {"Weekday", "Weekend"}, h \in 0..23 }

RecordsWith(df, by, k) ==
    {i \in 1..Len(df.rows) : \A b \in 1..Len(by) : df.rows[i][by[b]] = k[b]}

SumOver(df, S, col) ==
    LET sum[i \in 0..Len(df.rows)] ==
            IF i = 0 THEN 0
            ELSE sum[i-1] + (IF i \in S THEN df.rows[i][col].v ELSE 0)
    IN  sum[Len(df.rows)]

MetricsOf(by) == IF Len(by) = 2 THEN {"download_mbps", "ping"}
                 ELSE {"download_mbps", "upload_mbps", "ping"}

\* the entry e of a table is the mean of each metric over the records S
IsMeanOver(e, df, S, by) ==
    /\ DOMAIN e.mean = MetricsOf(by)
    /\ \A c \in MetricsOf(by) :
          /\ e.mean[c].d > 0
          /\ e.mean[c].n * Cardinality(S) = e.mean[c].d * SumOver(df, S, c)

\* the entry e says "no data" for every metric, and zero for none
IsNoData(e, by) ==
    /\ DOMAIN e.mean = MetricsOf(by)
    /\ \A c \in MetricsOf(by) : e.mean[c].d = 0 /\ e.mean[c] # RatInt(0)

\* C12: every table of grouped means has an entry for a key exactly when a
\* record of its frame has that key, and the entry is the arithmetic mean of
\* each metric over exactly those records; a key of the canonical enumeration
\* without records has no entry, and in the table reindexed to the seven
\* day names it has an entry of NaN, never of zero.
C12_GroupMeans ==
    \A q \in 1..Len(tables) :
        LET t == tables[q]
        IN  /\ \A e \in t.table : e.key \in CanonicalKeys(t.by)
            /\ \A k \in CanonicalKeys(t.by) :
                  LET recs == RecordsWith(FrameOf(t), t.by, k)
                      es   == {e \in t.table : e.key = k}
                  IN  IF recs # {}
                      THEN /\ Cardinality(es) = 1
                           /\ \A e \in es : IsMeanOver(e, FrameOf(t), recs, t.by)
                      ELSE IF t.reindexed
                      THEN /\ Cardinality(es) = 1
                           /\ \A e \in es : IsNoData(e, t.by)
                      ELSE es = {}

\* two records at hour 9 with downloads 50 and 60: only group 9, mean 55
C12_Witness ==
    /\ prog = "analyze" /\ pc = "done"
    /\ Len(all_data_df.rows) = 2
    /\ Len(tables) = 3
    /\ Cardinality(tables[1].table) = 1
    /\ \E e \in tables[1].table :
          e.key = <<NumCell(9)>> /\ e.mean["download_mbps"] = RatInt(55)
    /\ Cardinality(tables[2].table) = 7

----------------------------------------------------------------------------
(* C13 *)

\* C13: preparing a prepared record set again gives the same record set:
\* the same records in the same order and, for each, the same local
\* timestamp, hour, day_of_week and day_type (and the same measurements).
C13_Idempotent ==
    (prog = "prepare_data" /\ pc = "done" /\ ~all_data_df.is_none) =>
      /\ again.ret = "df"
      /\ again.df.index = all_data_df.index
      /\ again.df.columns = all_data_df.columns
      /\ Len(again.df.rows) = Len(all_data_df.rows)
      /\ \A i \in 1..Len(all_data_df.rows) : \A c \in all_data_df.columns :
            again.df.rows[i][c] = all_data_df.rows[i][c]

C13_Witness ==
    /\ prog = "prepare_data" /\ pc = "done"
    /\ again.ret = "df"
    /\ Len(again.df.rows) = 2
    /\ again.df.index[1].kind = "nat" /\ again.df.index[2].kind = "aware"
    /\ again.df.rows[2]["hour"] = NumCell(0)
    /\ again.df.rows[2]["day_type"] = StrCell("Weekend")

----------------------------------------------------------------------------
(* C14 *)

\* statistics, deltas and charts of either program
OutputTags ==
    ComparisonOutput \cup PeriodOutput("Before") \cup PeriodOutput("After")
    \cup {"stats: all", "plot: over time", "plot: by hour", "plot: by day of week",
          "plot: correlations and distributions", "plot: weekday vs weekend"}

\* position of the first occurrence of a tag in the log (0: none)
FirstAt(tag) ==
    IF Said(tag) THEN CHOOSE i \in 1..Len(log) :
                         log[i] = tag /\ \A j \in 1..(i - 1) : log[j] # tag
    ELSE 0

\* every output of the log comes after the tag
AllOutputAfter(tag) ==
    \A i \in 1..Len(log) :
        log[i] \in OutputTags => (FirstAt(tag) > 0 /\ FirstAt(tag) < i)

\* C14: in every run of the dashboard and of the CLI the stages come in the
\* order load, prepare, split, statistics and deltas: nothing is split before
\* the preparation returned a record set, no statistic, delta, table or chart
\* is produced before that (in the dashboard, before the split), and a run
\* whose load failed or whose preparation failed or raised never produces a
\* partition, statistic, delta, table or chart.
C14_StagesInOrder ==
    prog \in {"dashboard", "analyze"} =>
      /\ (~source.readable \/ all_data_df.is_none) =>
            /\ before_df = None /\ after_df = None
            /\ deltas = <<>> /\ tables = <<>>
            /\ \A i \in 1..Len(log) : log[i] \notin OutputTags
            /\ ~Said("success: processed records") /\ ~Said("info: found before and after")
      /\ ~source.readable => all_data_df.is_none
      /\ prog = "dashboard" =>
            /\ AllOutputAfter("info: found before and after")
            /\ Said("info: found before and after") =>
                 /\ FirstAt("success: loaded") > 0
                 /\ FirstAt("success: loaded") < FirstAt("info: found before and after")
            /\ (deltas # <<>> \/ tables # <<>>) => Split
            /\ pc \in {"start", "loaded", "prepared"} => before_df = None /\ after_df = None
      /\ prog = "analyze" =>
            /\ AllOutputAfter("ok: data loaded")
            /\ Said("ok: data loaded") =>
                 FirstAt("loading and preparing") < FirstAt("ok: data loaded")
      /\ pc = "raised" => ~ENABLED Next

C14_Witness ==
    /\ prog = "dashboard" /\ pc = "done"
    /\ Said("metric: download") /\ Said("stats: Before") /\ Said("stats: After")
    /\ Len(deltas) = 3 /\ Len(tables) = 6
    /\ FirstAt("success: loaded") < FirstAt("success: processed records")
    /\ FirstAt("success: processed records") < FirstAt("metric: download")
    /\ FirstAt("metric: download") < FirstAt("stats: Before")

----------------------------------------------------------------------------
(* C15 *)

\* the records of two frames are the same: the same timestamps in the same
\* order and for each the same measurements, local timestamp, hour,
\* day_of_week and day_type
SameRecords(a, b) ==
    /\ Len(a.rows) = Len(b.rows)
    /\ a.index = b.index
    /\ \A i \in 1..Len(a.rows) :
          /\ TextOf(a.rows[i]["timestamp_utc"]) = TextOf(b.rows[i]["timestamp_utc"])
          /\ \A c \in {"ping", "download_mbps", "upload_mbps",
                       "hour", "day_of_week", "day_type"} :
                a.rows[i][c] = b.rows[i][c]

\* the outcome r of prepare_data agrees with the outcome of this CLI run
AgreesWithRun(r) ==
    IF all_data_df.is_none THEN r.ret # "df"
    ELSE r.ret = "df" /\ SameRecords(r.df, all_data_df)

\* C15 (as claimed): for every non-empty batch, prepare_data of the dashboard
\* (on the batch as load_data reads it) and load_and_prepare_data of the CLI
\* both fail or both return the same records with the same derived fields.
C15_RoutinesAgree ==
    (prog = "analyze" /\ pc # "start" /\ source.readable /\ Len(source.df.rows) > 0) =>
      \E mixed_as_utc \in BOOLEAN : \A use_local \in BOOLEAN :
          AgreesWithRun(prepare_data(load_data(source, use_local), mixed_as_utc))

\* the same for the batches without a thousands separator in a measurement
C15_AgreeWithoutSeparators ==
    (prog = "analyze" /\ pc # "start" /\ source.readable /\ Len(source.df.rows) > 0
       /\ \A i \in 1..Len(source.df.rows) : \A c \in source.df.columns :
             \A k \in 1..Len(source.df.rows[i][c].text) :
                 source.df.rows[i][c].text[k] # ",") =>
      \E mixed_as_utc \in BOOLEAN : \A use_local \in BOOLEAN :
          AgreesWithRun(prepare_data(load_data(source, use_local), mixed_as_utc))

----------------------------------------------------------------------------
(* C16 *)

\* C16: every row the generator writes holds the clock, and is later than
\* the row before it by 5 minutes plus a jitter of -60 to +60 seconds, so by
\* at least 4 minutes; the clock never passes START_DATE + NUMBER_OF_DAYS by
\* a whole step; and the generator terminates, with the clock at or past
\* START_DATE + NUMBER_OF_DAYS.
C16_TerminatesIncreasing ==
    /\ [][(prog = "generate-test-data.py" /\ written' # written) =>
            /\ written' = <<current_time'>>
            /\ current_time' - current_time >= 4 * 60
            /\ current_time' - current_time <= 6 * 60
            /\ written # <<>> =>
                 /\ written'[1] > written[1]
                 /\ written[1] = current_time
                 /\ written[1] < DaysFromCivil(2025, 9, 21) * 86400]_vars
    /\ [](prog = "generate-test-data.py" =>
            /\ current_time < DaysFromCivil(2025, 9, 21) * 86400 + 6 * 60
            /\ pc = "done" => current_time >= DaysFromCivil(2025, 9, 21) * 86400)
    /\ <>(prog = "generate-test-data.py" => pc = "done")

C16_Witness ==
    /\ prog = "generate-test-data.py" /\ pc = "done"
    /\ Len(written) = 1 /\ written[1] = current_time
    /\ current_time >= DaysFromCivil(2025, 9, 21) * 86400

====
